---- MODULE Spec2Model ----
(***************************************************************************)
(* Batch-scoring drivers (init / run) of the batch-endpoint examples, and  *)
(* the host that loads a driver once per worker and feeds it mini-batches. *)
(*                                                                         *)
(* Four drivers are modelled:                                              *)
(*   "torch"  deployment-torch/code/batch_driver.py                        *)
(*   "keras"  deployment-keras/code/batch_driver.py                        *)
(*   "text"   code/batch_driver.py of the text-summarization notebook      *)
(*   "custom" code/batch_driver.py of the custom-output (parquet) notebook *)
(***************************************************************************)
EXTENDS Integers, Sequences, FiniteSets, TLC

VARIABLES
    driver,     \* the scoring script of the deployment the job runs on
    cuda,       \* torch.cuda.is_available() on the job's compute nodes
    artefact,   \* state of the registered model: "ok" | "missing" | "corrupt"
    bad,        \* input files whose load always raises (malformed files)
    input,      \* the job's input files, in the order the host lists them
    wstate,     \* worker -> "Uninitialized" | "Ready" | "Scoring" | "Failed"
    g,          \* worker -> the module globals assigned so far (name -> value)
    initLog,    \* worker -> what happened to exceptions inside init()
    bstatus,    \* mini-batch -> "Pending" | "Running" | "Succeeded" | "Failed"
    attempts,   \* mini-batch -> number of run() calls started for it
    running,    \* set of <<worker, mini-batch>>: run() calls in progress
    outfile,    \* the job's appended output file: row -> number of copies
    outdir,     \* files in the output directory: output path -> content
    lastRun,    \* the last run() call made directly (SpecRun), as observed
    jstatus,    \* status of the job: "Running" | "Completed" | "Failed"
    endpoint,   \* the batch endpoint: whether it exists, its deployments, its
                \* default deployment name
    jobs,       \* the jobs invoked on the endpoint, in order
    nb,         \* the notebook or script a user runs cell by cell: which one,
                \* the next cell, the job held in `job`, the status its wait
                \* loop read, the model held in `model`, the exception raised
    workspace   \* the workspace: registered models and compute targets

vars == <<driver, cuda, artefact, bad, input, wstate, g, initLog, bstatus, attempts,
          running, outfile, outdir, lastRun, jstatus, endpoint, jobs, nb,
          workspace>>

\* the job's side and the client's side of the state
hostVars == <<driver, cuda, artefact, bad, input, wstate, g, initLog, bstatus,
              attempts, running, outfile, outdir, lastRun, jstatus>>

clientVars == <<endpoint, jobs, nb, workspace>>

(***************************************************************************)
(* Bounds of the model.                                                    *)
(***************************************************************************)
\* files that exist in the data store
MaxFiles == 4
\* longest mini-batch handed to run() directly
MaxLen == 2
\* most mini-batches in one job
MaxBatches == 3
\* most malformed files
MaxBad == 1
\* most run() calls of a job that hit a transient read error
MaxFaults == 4
\* most times a user runs verify-or-create cells again
MaxReruns == 2
\* most versions of the notebook's model registered before the run
MaxVersions == 2

Drivers == {"torch", "keras", "text", "custom"}

(***************************************************************************)
(* Deployment configuration (BatchDeployment(...) of each notebook).       *)
(***************************************************************************)
max_retries_more == 3 + 1

max_concurrency_more(d) == 3

instance_count == 2

max_retries == 3

max_concurrency_per_instance(d) == IF d = "text" THEN 1 ELSE 2

\* deployments configured with one more file per run() call
mini_batch_size_more(d) ==
    CASE d = "text" -> 2
      [] d = "custom" -> 3
      [] OTHER -> 11

mini_batch_size(d) ==
    CASE d = "text" -> 1
      [] d = "custom" -> 2
      [] OTHER -> 10

output_action(d) == IF d = "custom" THEN "summary_only" ELSE "append_row"

(***************************************************************************)
(* File paths.  A path is a sequence of "/"-separated segments and a       *)
(* segment is a sequence of "."-separated parts: d/1.csv is                *)
(* << <<"d">>, <<"1", "csv">> >>.                                          *)
(***************************************************************************)
MkPath(dir, stem, ext) == << <<dir>>, <<stem, ext>> >>

\* os.path.basename: what follows the last "/"
basename(path) == path[Len(path)]

\* pathlib.Path(p).stem: the final segment without its last suffix
PathStem(path) ==
    LET name == basename(path)
    IN  IF Len(name) > 1 THEN SubSeq(name, 1, Len(name) - 1) ELSE name

\* os.path.join(output_path, stem + ".parquet")
OutputFilePath(output_path, file_path) ==
    Append(output_path, Append(PathStem(file_path), "parquet"))

Ext(d) == IF d \in {"torch", "keras"} THEN "png" ELSE "csv"

\* The k-th file of the data store: d/1, e/1, d/2, e/2, ...
File(d, k) ==
    MkPath(IF k % 2 = 1 THEN "d" ELSE "e", ToString((k + 1) \div 2), Ext(d))

Files(d) == {File(d, k) : k \in 1..MaxFiles}

\* AZUREML_BI_OUTPUT_PATH, the directory the host provides
OutputDir == << <<"out">> >>

(***************************************************************************)
(* init().  Each operator takes the environment of one call and returns    *)
(*   g      the module globals assigned when init() ends,                  *)
(*   raised the steps that raised an exception,                            *)
(*   caught the steps whose exception init() itself caught.                *)
(* init() returns normally iff every raised step was caught.               *)
(*                                                                         *)
(* env.load  state of the model artefact: "ok", "missing" or "corrupt"     *)
(* env.tok   AutoTokenizer.from_pretrained succeeds                        *)
(* env.auto  from_pretrained(..., device_map="auto") succeeds              *)
(* env.bt    BetterTransformer.transform succeeds                          *)
(***************************************************************************)
Artefacts == {"ok", "missing", "corrupt"}

\* what can differ from one init() call to the next
InitEnvs == [tok : BOOLEAN, auto : BOOLEAN, bt : BOOLEAN]

EnvOf(load, e) == [load |-> load, tok |-> e.tok, auto |-> e.auto, bt |-> e.bt]

NoGlobals == [n \in {} |-> 0]

\* g with the global `name` (re)bound to v
Assign(gl, name, v) == [n \in DOMAIN gl \cup {name} |-> IF n = name THEN v ELSE gl[n]]

InitOutcome(gl, raised, caught) == [g |-> gl, raised |-> raised, caught |-> caught]

\* init() of the Torch driver without its last statement
init_torch_nodevice(hasCuda, env) ==
    IF env.load = "ok"
    THEN InitOutcome(
             Assign(NoGlobals, "model",
                    [cls |-> "MnistClassifier", weights |-> TRUE, dev |-> "cpu"]),
             {}, {})
    ELSE InitOutcome(NoGlobals, {"glob"}, {})

init_torch(hasCuda, env) ==
    IF env.load = "missing"
    THEN \* glob.glob(...)[-1] on an empty list
         InitOutcome(NoGlobals, {"glob"}, {})
    ELSE LET m0 == Assign(NoGlobals, "model",
                          [cls |-> "MnistClassifier", weights |-> FALSE, dev |-> "cpu"])
         IN  IF env.load = "corrupt"
             THEN InitOutcome(m0, {"load_state_dict"}, {})
             ELSE LET m1 == Assign(m0, "model",
                                   [cls |-> "MnistClassifier", weights |-> TRUE, dev |-> "cpu"])
                  IN  InitOutcome(
                          Assign(m1, "device", IF hasCuda THEN "cuda:0" ELSE "cpu"),
                          {}, {})

init_keras(hasCuda, env) ==
    IF env.load # "ok"
    THEN InitOutcome(NoGlobals, {"load_model"}, {})
    ELSE InitOutcome(
             Assign(NoGlobals, "model",
                    [cls |-> "keras", weights |-> TRUE, dev |-> "tf"]),
             {}, {})

init_custom(hasCuda, env) ==
    LET g0 == Assign(NoGlobals, "output_path", OutputDir)
    IN  CASE env.load = "missing" -> InitOutcome(g0, {"glob"}, {})
          [] env.load = "corrupt" -> InitOutcome(g0, {"pickle.load"}, {})
          [] OTHER ->
               InitOutcome(
                   Assign(g0, "model",
                          [cls |-> "xgboost", weights |-> TRUE, dev |-> "cpu"]),
                   {}, {})

\* init() of the text driver with the first model load outside any try
init_text_nofallback(hasCuda, env) ==
    LET dev0 == IF hasCuda THEN "cuda" ELSE "cpu"
        g0 == Assign(NoGlobals, "device", dev0)
        g1 == Assign(g0, "tokenizer", "AutoTokenizer")
    IN  IF ~env.tok \/ env.load = "missing"
        THEN InitOutcome(g0, {"tokenizer"}, {})
        ELSE IF env.load = "ok" /\ env.auto
             THEN InitOutcome(
                      Assign(g1, "model",
                             [cls |-> "Bart", weights |-> TRUE, dev |-> dev0]),
                      {}, {})
             ELSE InitOutcome(g1, {"from_pretrained(auto)"}, {})

init_text(hasCuda, env) ==
    LET dev0 == IF hasCuda THEN "cuda" ELSE "cpu"
        g0 == Assign(NoGlobals, "device", dev0)
    IN  IF ~env.tok \/ env.load = "missing"
        THEN InitOutcome(g0, {"tokenizer"}, {})
        ELSE
        LET g1 == Assign(g0, "tokenizer", "AutoTokenizer")
        IN  IF env.load = "ok" /\ env.auto
            THEN \* first load succeeded, on the device device_map picked
                 LET plain == [cls |-> "Bart", weights |-> TRUE, dev |-> dev0]
                     g2 == Assign(g1, "model", plain)
                 IN  IF dev0 = "cpu"
                     THEN InitOutcome(g2, {}, {})
                     ELSE IF env.bt
                          THEN InitOutcome(
                                   Assign(g2, "model",
                                          [cls |-> "BetterTransformer",
                                           weights |-> TRUE, dev |-> dev0]),
                                   {}, {})
                          ELSE InitOutcome(g2, {"BetterTransformer"},
                                           {"BetterTransformer"})
            ELSE \* first load raised: caught, loaded again on the CPU
                 IF env.load # "ok"
                 THEN InitOutcome(g1, {"from_pretrained(auto)", "from_pretrained"},
                                  {"from_pretrained(auto)"})
                 ELSE InitOutcome(
                          Assign(Assign(g1, "model",
                                        [cls |-> "Bart", weights |-> TRUE,
                                         dev |-> "cpu"]),
                                 "device", "cpu"),
                          {"from_pretrained(auto)"}, {"from_pretrained(auto)"})

init(d, hasCuda, env) ==
    CASE d = "torch" -> init_torch(hasCuda, env)
      [] d = "keras" -> init_keras(hasCuda, env)
      [] d = "text" -> init_text(hasCuda, env)
      [] d = "custom" -> init_custom(hasCuda, env)

\* the module globals run() of each driver reads
RunReads(d) ==
    CASE d = "torch" -> {"model", "device"}
      [] d = "keras" -> {"model"}
      [] d = "text" -> {"model", "tokenizer", "device"}
      [] d = "custom" -> {"model", "output_path"}

(***************************************************************************)
(* File contents and the loaded models, as far as run() looks at them.     *)
(***************************************************************************)
\* most files a job's folder spans in the data store
LastFileNo == MaxFiles + 2 * MaxBatches * mini_batch_size("torch")

\* index of a file in the data store
FileNoOf ==
    [e \in {"png", "csv"} |->
        [path \in {MkPath(IF k % 2 = 1 THEN "d" ELSE "e", ToString((k + 1) \div 2), e) :
                       k \in 1..LastFileNo} |->
            CHOOSE k \in 1..LastFileNo :
                path = MkPath(IF k % 2 = 1 THEN "d" ELSE "e",
                              ToString((k + 1) \div 2), e)]]

FileNo(d, path) == FileNoOf[Ext(d)][path]

\* raw output of the classifier on an image
Logits(d, path) == [c \in 1..3 |-> (FileNo(d, path) * c) % 4]

RECURSIVE Pow2(_)
Pow2(n) == IF n = 0 THEN 1 ELSE 2 * Pow2(n - 1)

RECURSIVE SumPow2(_, _)
SumPow2(v, i) == IF i = 0 THEN 0 ELSE Pow2(v[i]) + SumPow2(v, i - 1)

\* index (from 0) of the first largest entry
ArgMax(v) ==
    (CHOOSE i \in 1..Len(v) :
        /\ \A j \in 1..Len(v) : v[j] <= v[i]
        /\ \A j \in 1..(i - 1) : v[j] < v[i]) - 1

\* softmax over the last axis, each entry as <<numerator, denominator>>
Softmax(v) == [c \in 1..Len(v) |-> <<Pow2(v[c]), SumPow2(v, Len(v))>>]

\* largest softmax entry: reduce_max(softmax(v))
MaxSoftmax(v) ==
    LET s == Softmax(v)
    IN  s[CHOOSE i \in 1..Len(s) : \A j \in 1..Len(s) : s[j][1] <= s[i][1]]

\* torch.max(predictions, axis=-1): the largest entry and its index
TorchMax(predictions) ==
    LET k == ArgMax([c \in 1..Len(predictions) |-> predictions[c][1]])
    IN  [values |-> predictions[k + 1], indices |-> k]

\* columns and number of rows of a CSV file; a file of texts may hold a
\* header only
CsvColumns(d, path) == <<"age", "chol">>

NumRows(d, path) ==
    IF d = "text" THEN FileNo(d, path) % 3 ELSE 1 + (FileNo(d, path) % 2)

\* the rows of a CSV file, each named by its file and row number
CsvRows(d, path) == [r \in 1..NumRows(d, path) |-> <<path, r>>]

(***************************************************************************)
(* run().  `unreadable` is the set of positions of the mini-batch whose    *)
(* file cannot be loaded in this call.  An outcome is                      *)
(*   raised  an exception left run(),                                      *)
(*   value   what run() returned (<<>> when it raised),                    *)
(*   writes  the files run() wrote, in order: <<path, content>>,           *)
(*   g       the module globals when run() ends.                           *)
(***************************************************************************)
RunOutcome(raised, value, writes, gl) ==
    [raised |-> raised, value |-> value, writes |-> writes, g |-> gl]

\* run() with `global device` and a rebinding of it
run_globals_rebind(d, gl) ==
    IF "device" \in DOMAIN gl THEN Assign(gl, "device", "cpu:0") ELSE gl

\* run() has no `global` statement: every name it binds is a local
run_globals(d, gl) == gl

\* the model is called on an input placed on `device`
DeviceMismatch(gl) == gl["device"] # gl["model"].dev

\* run() with the loop body in a try whose handler stops the loop
item_error_partial(d, gl, results, writes) ==
    RunOutcome(FALSE, results, writes, run_globals(d, gl))

\* run() has no try/except: an exception raised while an item is loaded or
\* scored leaves run() and drops `results`; files already written stay
item_error(d, gl, results, writes) ==
    RunOutcome(TRUE, <<>>, writes, run_globals(d, gl))

\* run() of the Torch driver scoring the first image of the mini-batch again
torch_record_stale(mini_batch, i) ==
    LET predict_logits == Logits("torch", mini_batch[1])
    IN  [file |-> basename(mini_batch[i]),
         class |-> ArgMax(predict_logits),
         probability |-> MaxSoftmax(predict_logits)]

\* the record appended for the i-th file of the mini-batch
torch_record(mini_batch, i) ==
    LET image_path == mini_batch[i]
        predict_logits == Logits("torch", image_path)
        predictions == Softmax(predict_logits)
    IN  [file |-> basename(image_path),
         class |-> TorchMax(predictions).indices,
         probability |-> TorchMax(predictions).values]

RECURSIVE torch_loop(_, _, _, _, _)
torch_loop(gl, mini_batch, unreadable, i, results) ==
    IF i > Len(mini_batch)
    THEN RunOutcome(FALSE, results, <<>>, run_globals("torch", gl))
    ELSE IF i \in unreadable \/ DeviceMismatch(gl)
         THEN item_error("torch", gl, results, <<>>)
         ELSE torch_loop(gl, mini_batch, unreadable, i + 1,
                         Append(results, torch_record(mini_batch, i)))

\* run() of the Torch driver reading mini_batch[0] ahead of its loop
run_torch_peek(gl, mini_batch, unreadable) ==
    IF mini_batch = <<>>
    THEN RunOutcome(TRUE, <<>>, <<>>, run_globals("torch", gl))
    ELSE torch_loop(gl, mini_batch, unreadable, 1, <<>>)

run_torch(gl, mini_batch, unreadable) ==
    torch_loop(gl, mini_batch, unreadable, 1, <<>>)

\* run() of the Keras driver numbering the classes from 1
keras_record_one_based(mini_batch, i) ==
    LET image_path == mini_batch[i]
        pred == Logits("keras", image_path)
    IN  [file |-> basename(image_path),
         class |-> ArgMax(pred) + 1,
         probability |-> MaxSoftmax(pred)]

keras_record(mini_batch, i) ==
    LET image_path == mini_batch[i]
        pred == Logits("keras", image_path)
    IN  [file |-> basename(image_path),
         class |-> ArgMax(pred),
         probability |-> MaxSoftmax(pred)]

RECURSIVE keras_loop(_, _, _, _, _)
keras_loop(gl, mini_batch, unreadable, i, results) ==
    IF i > Len(mini_batch)
    THEN RunOutcome(FALSE, results, <<>>, run_globals("keras", gl))
    ELSE IF i \in unreadable
         THEN item_error("keras", gl, results, <<>>)
         ELSE keras_loop(gl, mini_batch, unreadable, i + 1,
                         Append(results, keras_record(mini_batch, i)))

run_keras(gl, mini_batch, unreadable) ==
    keras_loop(gl, mini_batch, unreadable, 1, <<>>)

\* run() writing the predictions alone instead of the scored frame
Parquet_predictions_only(file_path) ==
    [rows |-> CsvRows("custom", file_path), columns |-> <<"prediction">>]

\* data with data["prediction"] = pred, as written by to_parquet
Parquet(file_path) ==
    [rows |-> CsvRows("custom", file_path),
     columns |->
        IF \E c \in 1..Len(CsvColumns("custom", file_path)) :
               CsvColumns("custom", file_path)[c] = "prediction"
        THEN CsvColumns("custom", file_path)
        ELSE Append(CsvColumns("custom", file_path), "prediction")]

RECURSIVE custom_loop(_, _, _, _, _)
custom_loop(gl, mini_batch, unreadable, i, writes) ==
    IF i > Len(mini_batch)
    THEN RunOutcome(FALSE, mini_batch, writes, run_globals("custom", gl))
    ELSE LET file_path == mini_batch[i]
             output_file_path == OutputFilePath(gl["output_path"], file_path)
         IN  IF i \in unreadable
             THEN item_error("custom", gl, SubSeq(mini_batch, 1, i - 1), writes)
             ELSE custom_loop(gl, mini_batch, unreadable, i + 1,
                      Append(writes, <<output_file_path, Parquet(file_path)>>))

run_custom(gl, mini_batch, unreadable) ==
    custom_loop(gl, mini_batch, unreadable, 1, <<>>)

\* ds["score"]["text"]: the rows of all the files of the mini-batch
RECURSIVE ScoreRows(_, _)
ScoreRows(mini_batch, i) ==
    IF i > Len(mini_batch) THEN <<>>
    ELSE CsvRows("text", mini_batch[i]) \o ScoreRows(mini_batch, i + 1)

\* run() of the text driver summarising the first row of each file only
run_text_per_file(gl, mini_batch, unreadable) ==
    IF mini_batch = <<>> \/ unreadable # {} \/ ScoreRows(mini_batch, 1) = <<>>
    THEN RunOutcome(TRUE, <<>>, <<>>, run_globals("text", gl))
    ELSE RunOutcome(FALSE,
                    [i \in 1..Len(mini_batch) |-> <<"summary", <<mini_batch[i], 1>>>>],
                    <<>>, run_globals("text", gl))

run_text(gl, mini_batch, unreadable) ==
    IF mini_batch = <<>> \/ unreadable # {}
    THEN \* load_dataset raises
         item_error("text", gl, <<>>, <<>>)
    ELSE LET texts == ScoreRows(mini_batch, 1)
             resultList == [r \in 1..Len(texts) |-> <<"summary", texts[r]>>]
         IN  IF texts = <<>>
             THEN \* rps is bound inside the loop only
                  RunOutcome(TRUE, <<>>, <<>>, run_globals("text", gl))
             ELSE RunOutcome(FALSE, resultList, <<>>, run_globals("text", gl))

\* reading a global that init() never bound raises NameError
run(d, gl, mini_batch, unreadable) ==
    CASE mini_batch # <<>> /\ ~(RunReads(d) \subseteq DOMAIN gl) ->
            RunOutcome(TRUE, <<>>, <<>>, gl)
      [] d = "torch" -> run_torch(gl, mini_batch, unreadable)
      [] d = "keras" -> run_keras(gl, mini_batch, unreadable)
      [] d = "text" -> run_text(gl, mini_batch, unreadable)
      [] d = "custom" -> run_custom(gl, mini_batch, unreadable)

\* scoring item i of the mini-batch raises in this call
ItemRaises(d, gl, mini_batch, unreadable, i) ==
    \/ i \in unreadable
    \/ d = "torch" /\ DeviceMismatch(gl)

(***************************************************************************)
(* The endpoint, as the notebooks use it.  An endpoint hosts deployments    *)
(* and names at most one of them as its default; invoke starts a job on    *)
(* the named deployment, or on the default one when none is named.         *)
(***************************************************************************)
\* no deployment_name given / no default set
NoName == ""

\* no model bound to the variable `model`
NoModel == [name |-> NoName, version |-> 0, path |-> NoName]

NoEndpoint ==
    [exists |-> FALSE, deployments |-> {}, default |-> NoName,
     model |-> [n \in {} |-> NoModel]]

NoWorkspace == [models |-> {}, computes |-> {}]

NoNotebook ==
    [book |-> "", cell |-> 1, job |-> 0, seen |-> "", model |-> NoModel,
     registered |-> 0, reruns |-> 0, error |-> "", STATUS |-> "",
     model_dir |-> FALSE, exited |-> FALSE, code |-> 0]

Cell(op, arg) == [op |-> op, arg |-> arg]

\* the cells of each notebook, and the commands of the CLI script, that act
\* on the workspace, the endpoint or a job, in order
Cells(book) ==
    CASE book = "mnist" ->
           <<Cell("create_endpoint", NoName),
             Cell("register_model", "mnist-classification-torch"),
             Cell("get_model", "mnist-classification-torch"),
             Cell("create_compute", "cpu-cluster"),
             Cell("create_deployment", "mnist-torch-dpl"),
             Cell("set_default", "mnist-torch-dpl"),
             Cell("invoke", NoName),
             Cell("wait", NoName),
             Cell("create_deployment", "mnist-keras-dpl"),
             Cell("invoke", "mnist-keras-dpl"),
             Cell("wait", NoName),
             Cell("set_default", "mnist-keras-dpl"),
             Cell("delete_deployment", "mnist-torch-dpl"),
             Cell("delete_endpoint", NoName)>>
      [] book = "heart" ->
           <<Cell("register_model", "heart-classifier"),
             Cell("get_model", "heart-classifier"),
             Cell("create_endpoint", NoName),
             Cell("create_compute", "cpu-cluster"),
             Cell("create_deployment", "classifier-xgboost"),
             Cell("set_default", "classifier-xgboost"),
             Cell("invoke", NoName),
             Cell("invoke", "classifier-xgboost"),
             Cell("wait", NoName),
             Cell("delete_endpoint", NoName)>>
      [] book = "custom" ->
           <<Cell("register_model", "heart-classifier"),
             Cell("get_model", "heart-classifier"),
             Cell("create_endpoint", NoName),
             Cell("create_compute", "cpu-cluster"),
             Cell("create_deployment", "classifier-xgboost-custom"),
             Cell("set_default", "classifier-xgboost-custom"),
             Cell("invoke", "classifier-xgboost-custom"),
             Cell("wait", NoName),
             Cell("set_default", "classifier-xgboost-custom"),
             Cell("delete_endpoint", NoName)>>
      [] book = "text" ->
           <<Cell("register_model", "bart-text-summarization"),
             Cell("get_model", "bart-text-summarization"),
             Cell("create_endpoint", NoName),
             Cell("create_compute", "gpu-cluster"),
             Cell("create_deployment", "text-summarization-hfbart"),
             Cell("set_default", "text-summarization-hfbart"),
             Cell("invoke", NoName),
             Cell("wait", NoName)>>
      [] book = "imagenet" ->
           <<Cell("create_model", "imagenet-classifier-mlflow"),
             Cell("get_model", "imagenet-classifier-mlflow"),
             Cell("create_endpoint", NoName),
             Cell("create_compute", "cpu-cluster"),
             Cell("create_deployment", "imagenet-classifier-rnet-mlflow"),
             Cell("set_default", "imagenet-classifier-rnet-mlflow"),
             Cell("delete_endpoint", NoName)>>
      [] book = "cli" ->
           <<Cell("download_model", NoName),
             Cell("create_model", "imagenet-classifier"),
             Cell("compute_create", "gpu-cluster"),
             Cell("create_endpoint", NoName),
             Cell("create_deployment_set_default", "imagenet-classifier-resnetv2"),
             Cell("show", NoName),
             Cell("show", "imagenet-classifier-resnetv2"),
             Cell("invoke", NoName),
             Cell("show", NoName),
             Cell("stream", NoName),
             Cell("check_job_status", NoName),
             Cell("delete_endpoint", NoName),
             Cell("clean", NoName)>>

Notebooks == {"mnist", "heart", "custom", "text", "imagenet"}

\* the CLI script, run like a notebook from its first command on
Scripts == {"cli"}

\* model_name of the notebook, MODEL_NAME of the script
model_name(book) ==
    CASE book = "mnist" -> "mnist-classification-torch"
      [] book = "text" -> "bart-text-summarization"
      [] book = "imagenet" -> "imagenet-classifier-mlflow"
      [] book = "cli" -> "imagenet-classifier"
      [] OTHER -> "heart-classifier"

\* model_local_path of the notebook
model_local_path(book) ==
    IF book = "mnist" THEN "deployment-torch/model/" ELSE "model"

\* whether the notebook imports AmlCompute from azure.ai.ml.entities
ImportsAmlCompute(book) == book # "mnist"

\* the framework whose files the registered model holds: the folder
\* deployment-torch/model/ holds the state dict (*.pt) that the Torch
\* driver's init() globs for
Framework(model) ==
    IF model.path = "deployment-torch/model/" THEN "torch" ELSE "other"

\* the driver named by the deployment's code_configuration
DriverOf(deployment) ==
    CASE deployment = "mnist-torch-dpl" -> "torch"
      [] deployment = "mnist-keras-dpl" -> "keras"
      [] OTHER -> "other"

\* the state of the artefact that init() of driver d finds in
\* AZUREML_MODEL_DIR when its deployment was given `model`
ArtefactFor(d, model) == IF Framework(model) = d THEN "ok" ELSE "corrupt"

\* ml_client.models.list(), filtered by name
Registered(ws, name) == {m \in ws.models : m.name = name}

LatestVersion(ws, name) ==
    IF Registered(ws, name) = {} THEN 0
    ELSE CHOOSE v \in {m.version : m \in Registered(ws, name)} :
            \A m \in Registered(ws, name) : m.version <= v

\* ml_client.models.create_or_update(Model(name=name, path=path)): registers
\* a new version of the model
models_create_or_update(ws, name, path) ==
    LET m == [name |-> name, version |-> LatestVersion(ws, name) + 1, path |-> path]
    IN  [workspace |-> [ws EXCEPT !.models = @ \cup {m}], model |-> m, created |-> TRUE]

\* ml_client.models.get(name=name, label="latest"); NoModel: it raises
models_get(ws, name) ==
    IF Registered(ws, name) = {} THEN NoModel
    ELSE CHOOSE m \in Registered(ws, name) : m.version = LatestVersion(ws, name)

\* a cell that registers a version on every run
register_model_always(ws, name, path) == models_create_or_update(ws, name, path)

\* the verify-or-register cell
register_model(ws, name, path) ==
    IF Registered(ws, name) = {}
    THEN models_create_or_update(ws, name, path)
    ELSE [workspace |-> ws, model |-> NoModel, created |-> FALSE]

\* the verify-or-create compute cell; `imported`: the name AmlCompute is bound
create_compute(ws, name, imported) ==
    IF name \in ws.computes
    THEN [workspace |-> ws, error |-> ""]
    ELSE IF imported
         THEN [workspace |-> [ws EXCEPT !.computes = @ \cup {name}], error |-> ""]
         ELSE [workspace |-> ws, error |-> "NameError"]

\* az ml compute create -n name
compute_create(ws, name) == [ws EXCEPT !.computes = @ \cup {name}]

\* ml_client.begin_create_or_update(endpoint) of a new endpoint
create_endpoint(ep) ==
    [exists |-> TRUE, deployments |-> {}, default |-> NoName,
     model |-> [n \in {} |-> NoModel]]

\* ml_client.begin_create_or_update(BatchDeployment(name=name, model=model))
create_deployment(ep, name, model) ==
    [ep EXCEPT !.deployments = @ \cup {name},
               !.model = [n \in DOMAIN @ \cup {name} |->
                             IF n = name THEN model ELSE @[n]]]

\* a notebook that leaves the endpoint without a default deployment
set_default_skipped(ep, name) == ep

\* endpoint.defaults.deployment_name = name; begin_create_or_update(endpoint)
set_default(ep, name) == [ep EXCEPT !.default = name]

\* ml_client.batch_deployments.begin_delete(endpoint_name, name)
delete_deployment(ep, name) ==
    [ep EXCEPT !.deployments = @ \ {name},
               !.model = [n \in DOMAIN @ \ {name} |-> @[n]]]

\* ml_client.batch_endpoints.begin_delete(endpoint_name)
delete_endpoint(ep) == NoEndpoint

\* an endpoint that sends every job to its default deployment
invoke_target_default(ep, deployment_name) == ep.default

\* the deployment a job invoked on the endpoint runs on
invoke_target(ep, deployment_name) ==
    IF deployment_name = NoName THEN ep.default ELSE deployment_name

\* the job ml_client.batch_endpoints.invoke starts; it records the default
\* deployment at that moment
invoke(ep, deployment_name) ==
    [on |-> invoke_target(ep, deployment_name),
     named |-> deployment_name,
     default |-> ep.default,
     status |-> "Running"]

\* the endpoint after a cell that acts on the endpoint; `model` is the value
\* of the variable model when the cell runs
EndpointAfter(ep, cell, model) ==
    CASE cell.op = "create_endpoint" -> create_endpoint(ep)
      [] cell.op = "create_deployment" -> create_deployment(ep, cell.arg, model)
      [] cell.op = "create_deployment_set_default" ->
           set_default(create_deployment(ep, cell.arg, model), cell.arg)
      [] cell.op = "set_default" -> set_default(ep, cell.arg)
      [] cell.op = "delete_deployment" -> delete_deployment(ep, cell.arg)
      [] cell.op = "delete_endpoint" -> delete_endpoint(ep)
      [] OTHER -> ep

\* the statuses a job ends in
TerminalStatuses == {"Completed", "Failed", "Canceled"}

\* while ml_client.jobs.get(name=job.name).status not in ["Completed", "Failed"]
wait_loop_continues(status) == status \notin {"Completed", "Failed"}

(***************************************************************************)
(* The CLI script's check of the job's final status: what it echoes and    *)
(* whether, and with which status, it exits there.                         *)
(***************************************************************************)
ScriptStep(echo, exited, code) == [echo |-> echo, exited |-> exited, code |-> code]

\* the check comparing with "Succeeded" instead of "Completed"
check_job_status_succeeded(STATUS) ==
    CASE STATUS = "Succeeded" -> ScriptStep(<<STATUS, "Job completed">>, FALSE, 0)
      [] STATUS = "Failed" -> ScriptStep(<<STATUS, "Job failed">>, TRUE, 1)
      [] OTHER ->
           ScriptStep(<<STATUS, "Job status not failed or completed">>, TRUE, 2)

\* the check without its exit commands
check_job_status_no_exit(STATUS) ==
    CASE STATUS = "Completed" -> ScriptStep(<<STATUS, "Job completed">>, FALSE, 0)
      [] STATUS = "Failed" -> ScriptStep(<<STATUS, "Job failed">>, FALSE, 0)
      [] OTHER ->
           ScriptStep(<<STATUS, "Job status not failed or completed">>, FALSE, 0)

check_job_status(STATUS) ==
    CASE STATUS = "Completed" -> ScriptStep(<<STATUS, "Job completed">>, FALSE, 0)
      [] STATUS = "Failed" -> ScriptStep(<<STATUS, "Job failed">>, TRUE, 1)
      [] OTHER ->
           ScriptStep(<<STATUS, "Job status not failed or completed">>, TRUE, 2)

\* the exit statuses a failing command of the script can have
FailureCodes == {1, 2}

(***************************************************************************)
(* Running the cells.                                                      *)
(***************************************************************************)
NextCell == Cells(nb.book)[nb.cell]

Result(ep, js, ws, n) == [endpoint |-> ep, jobs |-> js, workspace |-> ws, nb |-> n]

\* the state after running `cell` in the current state, the position in the
\* notebook left as it is; an exception is recorded in nb.error
Run(cell) ==
    CASE cell.op = "register_model" ->
           LET r == register_model(workspace, cell.arg, model_local_path(nb.book))
           IN  Result(endpoint, jobs, r.workspace,
                      [nb EXCEPT !.model = IF r.created THEN r.model ELSE @,
                                 !.registered = IF r.created THEN @ + 1 ELSE @])
      [] cell.op = "create_model" ->
           LET r == models_create_or_update(workspace, cell.arg,
                                            model_local_path(nb.book))
           IN  Result(endpoint, jobs, r.workspace,
                      [nb EXCEPT !.registered = @ + 1])
      [] cell.op = "get_model" ->
           LET m == models_get(workspace, cell.arg)
           IN  IF m = NoModel
               THEN Result(endpoint, jobs, workspace,
                           [nb EXCEPT !.error = "ResourceNotFoundError"])
               ELSE Result(endpoint, jobs, workspace, [nb EXCEPT !.model = m])
      [] cell.op = "create_compute" ->
           LET r == create_compute(workspace, cell.arg, ImportsAmlCompute(nb.book))
           IN  Result(endpoint, jobs, r.workspace, [nb EXCEPT !.error = r.error])
      [] cell.op = "compute_create" ->
           Result(endpoint, jobs, compute_create(workspace, cell.arg), nb)
      [] cell.op = "invoke" ->
           IF endpoint.exists
              /\ invoke_target(endpoint, cell.arg) \in endpoint.deployments
           THEN Result(endpoint, Append(jobs, invoke(endpoint, cell.arg)), workspace,
                       [nb EXCEPT !.job = Len(jobs) + 1, !.seen = ""])
           ELSE Result(endpoint, jobs, workspace,
                       [nb EXCEPT !.error = "no deployment to invoke"])
      [] cell.op = "download_model" ->
           Result(endpoint, jobs, workspace, [nb EXCEPT !.model_dir = TRUE])
      [] cell.op = "clean" ->
           Result(endpoint, jobs, workspace, [nb EXCEPT !.model_dir = FALSE])
      [] cell.op = "check_job_status" ->
           LET STATUS == jobs[nb.job].status
               step == check_job_status(STATUS)
           IN  Result(endpoint, jobs, workspace,
                      [nb EXCEPT !.STATUS = STATUS,
                                 !.exited = step.exited,
                                 !.code = step.code])
      [] cell.op \in {"show", "stream"} ->
           Result(endpoint, jobs, workspace, nb)
      [] OTHER ->
           Result(EndpointAfter(endpoint, cell, nb.model), jobs, workspace, nb)

\* the notebook or script can go on: no cell has raised, no command has
\* ended the script
Going == nb.error = "" /\ ~nb.exited /\ nb.cell <= Len(Cells(nb.book))

\* The user runs the next cell, one that is not a wait loop; a cell that
\* raises stops the run.  The script ends with status 0 after its last
\* command.
RunCell ==
    /\ Going
    /\ NextCell.op # "wait"
    /\ NextCell.op = "stream" => jobs[nb.job].status \in TerminalStatuses
    /\ LET r == Run(NextCell)
           ok == r.nb.error = "" /\ ~r.nb.exited
           last == nb.cell = Len(Cells(nb.book))
       IN  /\ endpoint' = r.endpoint
           /\ jobs' = r.jobs
           /\ workspace' = r.workspace
           /\ nb' = [r.nb EXCEPT !.cell = IF ok THEN @ + 1 ELSE @,
                                 !.exited = IF ok /\ last /\ nb.book \in Scripts
                                            THEN TRUE ELSE @]
    /\ UNCHANGED hostVars

\* The user runs a verify-or-create cell once more.
Rerun(k) ==
    /\ Going
    /\ nb.book \in Notebooks
    /\ k < nb.cell
    /\ Cells(nb.book)[k].op \in {"register_model", "create_compute"}
    /\ nb.reruns < MaxReruns
    /\ LET r == Run(Cells(nb.book)[k])
       IN  /\ workspace' = r.workspace
           /\ nb' = [r.nb EXCEPT !.reruns = @ + 1]
    /\ UNCHANGED <<hostVars, endpoint, jobs>>

\* A command of the script fails; under `set -e` the script stops there with
\* the command's status.
CommandFails ==
    /\ Going
    /\ nb.book \in Scripts
    /\ \E code \in FailureCodes :
          nb' = [nb EXCEPT !.error = "command failed", !.exited = TRUE, !.code = code]
    /\ UNCHANGED <<hostVars, endpoint, jobs, workspace>>

\* One round of the wait loop: read the status of `job`, and leave the loop
\* or sleep and stay in it.
Poll ==
    /\ Going
    /\ NextCell.op = "wait"
    /\ LET status == jobs[nb.job].status
       IN  nb' = [nb EXCEPT !.seen = status,
                           !.cell = IF wait_loop_continues(status) THEN @ ELSE @ + 1]
    /\ UNCHANGED <<hostVars, endpoint, jobs, workspace>>

\* The platform ends job j.
JobEnds(j) ==
    /\ jobs[j].status = "Running"
    /\ \E status \in {"Completed", "Failed"} :
          jobs' = [jobs EXCEPT ![j].status = status]
    /\ UNCHANGED <<hostVars, endpoint, nb, workspace>>

\* Job j is cancelled: the host stops dispatching its mini-batches.
JobCanceled(j) ==
    /\ jobs[j].status = "Running"
    /\ jobs' = [jobs EXCEPT ![j].status = "Canceled"]
    /\ UNCHANGED <<hostVars, endpoint, nb, workspace>>

(***************************************************************************)
(* The host: workers, mini-batches, retries, output.                       *)
(***************************************************************************)
\* one scoring process per instance and concurrency slot
Workers(d) == (1..instance_count) \X (1..max_concurrency_per_instance(d))

Min(a, b) == IF a < b THEN a ELSE b

NumBatches == (Len(input) + mini_batch_size(driver) - 1) \div mini_batch_size(driver)

\* the b-th mini-batch of the job: the next mini_batch_size files of the input
Batch(b) ==
    SubSeq(input, (b - 1) * mini_batch_size(driver) + 1,
           Min(b * mini_batch_size(driver), Len(input)))

\* sizes of the input folders tried: one full mini-batch, and MaxBatches
\* mini-batches of which the last holds a single file
JobSizes(d) == {mini_batch_size(d), (MaxBatches - 1) * mini_batch_size(d) + 1}

\* a folder of n files: all in one folder, or spread over two folders
Folder(d, n, nested) == [k \in 1..n |-> File(d, IF nested THEN k ELSE 2 * k - 1)]

NoRun ==
    [called |-> FALSE, w |-> <<0, 0>>, driver |-> "", mini_batch |-> <<>>,
     unreadable |-> {}, before |-> NoGlobals,
     out |-> RunOutcome(FALSE, <<>>, <<>>, NoGlobals)]

\* the output directory after the writes of one call, later writes replacing
\* earlier ones at the same path
RECURSIVE ApplyWrites(_, _, _)
ApplyWrites(dir, writes, i) ==
    IF i > Len(writes) THEN dir
    ELSE ApplyWrites(
             [p \in DOMAIN dir \cup {writes[i][1]} |->
                 IF p = writes[i][1] THEN writes[i][2] ELSE dir[p]],
             writes, i + 1)

\* positions of a mini-batch whose file cannot be loaded in a call
Unreadable(mini_batch, transient) ==
    {i \in 1..Len(mini_batch) : mini_batch[i] \in bad} \cup transient

InitCommon(ws) ==
    /\ driver \in Drivers
    /\ cuda \in BOOLEAN
    /\ artefact \in Artefacts
    /\ wstate = [w \in ws |-> "Uninitialized"]
    /\ g = [w \in ws |-> NoGlobals]
    /\ initLog = [w \in ws |-> [calls |-> 0, raised |-> {}, caught |-> {}]]
    /\ running = {}
    /\ outfile = [row \in {} |-> 0]
    /\ outdir = [p \in {} |-> 0]
    /\ lastRun = NoRun
    /\ jstatus = "Running"
    /\ endpoint = NoEndpoint
    /\ jobs = <<>>
    /\ nb = NoNotebook
    /\ workspace = NoWorkspace

\* The host starts worker w, which imports the script and calls init().
InitWorker(w) ==
    /\ wstate[w] = "Uninitialized"
    /\ \E e \in InitEnvs :
          LET r == init(driver, cuda, EnvOf(artefact, e))
          IN  /\ g' = [g EXCEPT ![w] = r.g]
              /\ initLog' = [initLog EXCEPT ![w] = [calls |-> @.calls + 1,
                                                     raised |-> r.raised,
                                                     caught |-> r.caught]]
              /\ wstate' = [wstate EXCEPT ![w] =
                               IF r.raised \subseteq r.caught THEN "Ready"
                               ELSE "Failed"]
    /\ UNCHANGED <<clientVars, jstatus, driver, cuda, artefact, bad, input, bstatus, attempts, running,
                   outfile, outdir, lastRun>>

\* what one run() call leaves behind, whoever called it
RunEffects(w, mini_batch, unreadable, r) ==
    /\ g' = [g EXCEPT ![w] = r.g]
    /\ outdir' = ApplyWrites(outdir, r.writes, 1)
    /\ lastRun' = [called |-> TRUE, w |-> w, driver |-> driver,
                   mini_batch |-> mini_batch, unreadable |-> unreadable,
                   before |-> g[w], out |-> r]

(***************************************************************************)
(* SpecRun: one initialised worker, run() called on arbitrary mini-batches *)
(* of files of the data store.                                             *)
(***************************************************************************)
RECURSIVE SeqsUpTo(_, _)
SeqsUpTo(S, n) ==
    IF n = 0 THEN {<<>>}
    ELSE LET shorter == SeqsUpTo(S, n - 1)
         IN  shorter \cup {Append(q, x) : q \in shorter, x \in S}

TheWorker == <<1, 1>>

InitRun ==
    /\ InitCommon({TheWorker})
    /\ bad \in {B \in SUBSET Files(driver) : Cardinality(B) <= MaxBad}
    /\ input = <<>>
    /\ bstatus = <<>>
    /\ attempts = <<>>

DirectRun(w) ==
    /\ wstate[w] = "Ready"
    /\ \E mini_batch \in SeqsUpTo(Files(driver), MaxLen) :
          LET unreadable == Unreadable(mini_batch, {})
          IN  RunEffects(w, mini_batch, unreadable,
                         run(driver, g[w], mini_batch, unreadable))
    /\ UNCHANGED <<clientVars, jstatus, driver, cuda, artefact, bad, input, wstate, initLog, bstatus, attempts,
                   running, outfile>>

NextRun == InitWorker(TheWorker) \/ DirectRun(TheWorker)

SpecRun == InitRun /\ [][NextRun]_vars

(***************************************************************************)
(* Spec: one job of a deployment.  The host partitions the input folder    *)
(* into mini-batches, starts the workers one after the other and hands the *)
(* first Pending mini-batch to the first Ready worker; a mini-batch whose  *)
(* run() raised is handed out again until its retries are used up.         *)
(***************************************************************************)
InitJob ==
    /\ InitCommon(Workers(driver))
    /\ driver \in {"keras", "custom"} => ~cuda
    /\ bad = {}
    /\ \E n \in JobSizes(driver), nested \in BOOLEAN :
          /\ nested => driver = "custom"
          /\ input = Folder(driver, n, nested)
    /\ bstatus = [b \in 1..NumBatches |-> "Pending"]
    /\ attempts = [b \in 1..NumBatches |-> 0]

\* w comes before v in the order the host starts its workers
Before(w, v) == w[1] < v[1] \/ (w[1] = v[1] /\ w[2] < v[2])

\* The host starts worker w, once the workers before it are started.
StartWorker(w) ==
    /\ jstatus = "Running"
    /\ \A v \in Workers(driver) : Before(v, w) => wstate[v] # "Uninitialized"
    /\ InitWorker(w)

\* The host hands the first Pending mini-batch, b, to the first Ready worker,
\* w: run(Batch(b)) starts.
Dispatch(w, b) ==
    /\ jstatus = "Running"
    /\ wstate[w] = "Ready"
    /\ \A v \in Workers(driver) : Before(v, w) => wstate[v] # "Ready"
    /\ bstatus[b] = "Pending"
    /\ \A c \in 1..(b - 1) : bstatus[c] # "Pending"
    /\ wstate' = [wstate EXCEPT ![w] = "Scoring"]
    /\ bstatus' = [bstatus EXCEPT ![b] = "Running"]
    /\ attempts' = [attempts EXCEPT ![b] = @ + 1]
    /\ running' = running \cup {<<w, b>>}
    /\ UNCHANGED <<clientVars, jstatus, driver, cuda, artefact, bad, input, g, initLog, outfile,
                   outdir, lastRun>>

\* the output file with the rows of one returned value appended
RECURSIVE AppendRows(_, _, _)
AppendRows(file, value, i) ==
    IF i > Len(value) THEN file
    ELSE AppendRows(
             [row \in DOMAIN file \cup {value[i]} |->
                 IF row = value[i]
                 THEN (IF row \in DOMAIN file THEN file[row] ELSE 0) + 1
                 ELSE file[row]],
             value, i + 1)

\* a host that never hands a mini-batch out again after a failed call
Collect_lost(b, r) ==
    /\ bstatus' = [bstatus EXCEPT ![b] = IF ~r.raised THEN "Succeeded" ELSE "Running"]
    /\ outfile' = IF ~r.raised /\ output_action(driver) = "append_row"
                  THEN AppendRows(outfile, r.value, 1)
                  ELSE outfile

\* a host that hands a mini-batch out again although its call succeeded
Collect_redispatch(b, r) ==
    /\ bstatus' = [bstatus EXCEPT ![b] =
                      IF attempts[b] <= max_retries THEN "Pending"
                      ELSE IF ~r.raised THEN "Succeeded"
                      ELSE "Failed"]
    /\ outfile' = IF ~r.raised /\ output_action(driver) = "append_row"
                  THEN AppendRows(outfile, r.value, 1)
                  ELSE outfile

\* what the host does with a mini-batch whose run() call has ended
Collect(b, r) ==
    /\ bstatus' = [bstatus EXCEPT ![b] =
                      IF ~r.raised THEN "Succeeded"
                      ELSE IF attempts[b] <= max_retries THEN "Pending"
                      ELSE "Failed"]
    /\ outfile' = IF ~r.raised /\ output_action(driver) = "append_row"
                  THEN AppendRows(outfile, r.value, 1)
                  ELSE outfile

\* run() calls of the job that have ended with an exception
RECURSIVE FailedAttempts(_)
FailedAttempts(b) ==
    IF b = 0 THEN 0
    ELSE FailedAttempts(b - 1) + attempts[b]
            - (IF bstatus[b] \in {"Running", "Succeeded"} THEN 1 ELSE 0)

\* read errors the environment may still inject into a call on Batch(b)
Transients(b) ==
    IF FailedAttempts(NumBatches) < MaxFaults
    THEN {{}} \cup {{i} : i \in {1, Len(Batch(b))}}
    ELSE {{}}

\* run(Batch(b)) on worker w ends and the host collects its outcome.
RunReturn(w, b) ==
    /\ <<w, b>> \in running
    /\ \E transient \in Transients(b) :
          LET unreadable == Unreadable(Batch(b), transient)
              r == run(driver, g[w], Batch(b), unreadable)
          IN  /\ g' = [g EXCEPT ![w] = r.g]
              /\ outdir' = ApplyWrites(outdir, r.writes, 1)
              /\ Collect(b, r)
    /\ wstate' = [wstate EXCEPT ![w] = "Ready"]
    /\ running' = running \ {<<w, b>>}
    /\ UNCHANGED <<clientVars, jstatus, driver, cuda, artefact, bad, input, initLog, attempts, lastRun>>

\* every mini-batch of the job is Succeeded or Failed
AllScored == \A b \in DOMAIN bstatus : bstatus[b] \in {"Succeeded", "Failed"}

\* The job ends once every mini-batch is scored: Completed when some
\* mini-batch succeeded, whatever failed; Completed or Failed when none did.
Finish ==
    /\ jstatus = "Running"
    /\ AllScored
    /\ jstatus' \in IF \E b \in DOMAIN bstatus : bstatus[b] = "Succeeded"
                    THEN {"Completed"}
                    ELSE {"Completed", "Failed"}
    /\ UNCHANGED <<clientVars, driver, cuda, artefact, bad, input, wstate, g, initLog,
                   bstatus, attempts, running, outfile, outdir, lastRun>>

\* The job fails when init() failed on every worker: nothing can be scored.
JobFail ==
    /\ jstatus = "Running"
    /\ \A w \in DOMAIN wstate : wstate[w] = "Failed"
    /\ jstatus' = "Failed"
    /\ UNCHANGED <<clientVars, driver, cuda, artefact, bad, input, wstate, g, initLog,
                   bstatus, attempts, running, outfile, outdir, lastRun>>

Next ==
    \/ \E w \in Workers(driver) : StartWorker(w)
    \/ \E w \in Workers(driver), b \in 1..NumBatches : Dispatch(w, b)
    \/ \E w \in Workers(driver), b \in 1..NumBatches : RunReturn(w, b)
    \/ Finish
    \/ JobFail

Spec == InitJob /\ [][Next]_vars

\* every worker that exists in some deployment
AllWorkers == UNION {Workers(d) : d \in Drivers}

\* The host keeps its workers going: a worker that can be started, handed a
\* mini-batch or collected from eventually is, and a job that can end does.
\* The third condition is WF_vars(\E b : RunReturn(w, b)) written out: that
\* action is enabled exactly when a call is in progress on w.
SpecFair ==
    /\ Spec
    /\ \A w \in AllWorkers :
          /\ WF_vars(w \in Workers(driver) /\ StartWorker(w))
          /\ WF_vars(w \in Workers(driver)
                        /\ \E b \in 1..NumBatches : Dispatch(w, b))
          /\ \/ []<>(\A b \in 1..NumBatches : <<w, b>> \notin running)
             \/ []<><<\E b \in 1..NumBatches : RunReturn(w, b)>>_vars
    /\ WF_vars(Finish \/ JobFail)

(***************************************************************************)
(* SpecClient: a user runs one of the notebooks from its first cell on     *)
(* while the platform runs, ends or cancels the jobs it invoked.           *)
(***************************************************************************)
\* the models of name `name` registered before the run: its first n versions
EarlierVersions(name, path, n) ==
    {[name |-> name, version |-> v, path |-> path] : v \in 1..n}

InitClient ==
    /\ driver = "torch"
    /\ cuda = FALSE
    /\ artefact = "ok"
    /\ bad = {}
    /\ input = <<>>
    /\ wstate = [w \in {} |-> "Uninitialized"]
    /\ g = [w \in {} |-> NoGlobals]
    /\ initLog = [w \in {} |-> [calls |-> 0, raised |-> {}, caught |-> {}]]
    /\ bstatus = <<>>
    /\ attempts = <<>>
    /\ running = {}
    /\ outfile = [row \in {} |-> 0]
    /\ outdir = [p \in {} |-> 0]
    /\ lastRun = NoRun
    /\ jstatus = "Running"
    /\ endpoint = NoEndpoint
    /\ jobs = <<>>
    /\ \E book \in Notebooks \cup Scripts :
          /\ nb = [NoNotebook EXCEPT !.book = book]
          /\ \E n \in 0..MaxVersions, computes \in SUBSET {"cpu-cluster", "gpu-cluster"} :
                workspace =
                   [models |-> EarlierVersions(model_name(book),
                                               model_local_path(book), n),
                    computes |-> computes]

NextClient ==
    \/ RunCell
    \/ \E k \in 1..Len(Cells(nb.book)) : Rerun(k)
    \/ CommandFails
    \/ Poll
    \/ \E j \in DOMAIN jobs : JobEnds(j)
    \/ \E j \in DOMAIN jobs : JobCanceled(j)

SpecClient == InitClient /\ [][NextClient]_vars

(***************************************************************************)
(* Properties.                                                             *)
(***************************************************************************)
Distinct(q) == \A i, j \in 1..Len(q) : q[i] = q[j] => i = j

\* some item of the last direct call raised, and k is the first that did
FirstError(k) ==
    /\ k \in 1..Len(lastRun.mini_batch)
    /\ ItemRaises(lastRun.driver, lastRun.before, lastRun.mini_batch,
                  lastRun.unreadable, k)
    /\ \A j \in 1..(k - 1) :
          ~ItemRaises(lastRun.driver, lastRun.before, lastRun.mini_batch,
                      lastRun.unreadable, j)

\* C1 (as claimed): a run() call of the Torch or the Keras driver on N >= 1
\* files that can all be loaded returns N records, the i-th with the basename
\* of the i-th path in `file`.
C1_OneRecordPerItem ==
    (/\ lastRun.called
     /\ lastRun.driver \in {"torch", "keras"}
     /\ Len(lastRun.mini_batch) >= 1
     /\ lastRun.unreadable = {})
        => /\ ~lastRun.out.raised
           /\ Len(lastRun.out.value) = Len(lastRun.mini_batch)
           /\ \A i \in 1..Len(lastRun.mini_batch) :
                 lastRun.out.value[i].file = basename(lastRun.mini_batch[i])

\* every file of call a that is also in call c got the same record in both
SameItemSameRecord(a, c) ==
    \A i \in 1..Len(a.out.value), j \in 1..Len(c.out.value) :
        a.mini_batch[i] = c.mini_batch[j] => a.out.value[i] = c.out.value[j]

\* C2: in the Torch and Keras drivers the record of a file is the same at
\* every position of a mini-batch, in every mini-batch and after every
\* earlier call: a call agrees with itself and with the call before it on
\* every file they share.
C2_RecordDependsOnItemOnly ==
    [][lastRun'.driver \in {"torch", "keras"}
          => /\ SameItemSameRecord(lastRun', lastRun')
             /\ SameItemSameRecord(lastRun, lastRun')]_vars

C2_Witness ==
    /\ lastRun.called
    /\ lastRun.driver \in {"torch", "keras"}
    /\ Len(lastRun.out.value) = 2
    /\ lastRun.mini_batch[1] = lastRun.mini_batch[2]
    /\ lastRun.out.value[1] = lastRun.out.value[2]

\* C3: init() has run exactly once, and returned normally, on every worker
\* that has a run() call in progress, and every global run() reads is bound
\* there; no worker is initialised twice and no call is in progress on a
\* worker that is Uninitialized or Failed.
C3_InitBeforeRun ==
    /\ \A w \in DOMAIN wstate :
          /\ initLog[w].calls <= 1
          /\ wstate[w] = "Uninitialized" <=> initLog[w].calls = 0
          /\ wstate[w] \in {"Uninitialized", "Failed"}
                => \A r \in running : r[1] # w
    /\ \A r \in running :
          /\ wstate[r[1]] = "Scoring"
          /\ initLog[r[1]].calls = 1
          /\ initLog[r[1]].raised \subseteq initLog[r[1]].caught
          /\ RunReads(driver) \subseteq DOMAIN g[r[1]]

C3_Witness ==
    \E r \in running, w \in DOMAIN wstate :
        /\ driver = "torch"
        /\ wstate[w] = "Uninitialized"
        /\ DOMAIN g[r[1]] = {"model", "device"}

\* C4: a step taken while a worker is initialised (a run() call, raising or
\* not) leaves that worker's globals as init() bound them.
C4_RunKeepsGlobals ==
    [][\A w \in DOMAIN wstate :
          wstate[w] \in {"Ready", "Scoring"} => g'[w] = g[w]]_vars

C4_Witness ==
    /\ lastRun.called
    /\ lastRun.driver = "custom"
    /\ lastRun.out.writes # <<>>
    /\ lastRun.out.raised
    /\ g[lastRun.w] = lastRun.before
    /\ DOMAIN g[lastRun.w] = {"model", "output_path"}

\* the steps of init() that load the model or the tokenizer
LoadSteps ==
    {"glob", "load_state_dict", "load_model", "pickle.load", "tokenizer",
     "from_pretrained(auto)", "from_pretrained"}

\* C5 (as claimed): in every driver an exception raised while the model is
\* loaded is not caught by init() and the worker becomes Failed.
C5_InitCatchesNothing ==
    \A w \in DOMAIN wstate :
        initLog[w].raised \cap LoadSteps # {}
            => /\ initLog[w].caught \cap LoadSteps = {}
               /\ wstate[w] = "Failed"

\* C5 (amended): the Torch, Keras and custom-output drivers catch nothing and
\* any exception of init() makes the worker Failed.  The text driver catches
\* the exception of its first model load, always, and loads the model again
\* on the CPU: if that works the worker is Ready with device "cpu"; it becomes
\* Failed exactly when the tokenizer load or the second model load raised.
C5_InitCatchesOnlyFirstTextLoad ==
    \A w \in DOMAIN wstate :
        /\ initLog[w].caught \cap LoadSteps
              = IF driver = "text"
                THEN initLog[w].raised \cap {"from_pretrained(auto)"}
                ELSE {}
        /\ wstate[w] = "Failed"
              <=> (initLog[w].raised \cap LoadSteps)
                     \ {"from_pretrained(auto)"} # {}
        /\ driver # "text" /\ initLog[w].raised # {} => wstate[w] = "Failed"
        /\ "from_pretrained(auto)" \in initLog[w].raised /\ wstate[w] = "Ready"
              => g[w]["device"] = "cpu" /\ g[w]["model"].dev = "cpu"

C5_Witness ==
    \E w \in DOMAIN wstate :
        /\ driver = "text"
        /\ cuda
        /\ "from_pretrained(auto)" \in initLog[w].caught
        /\ wstate[w] = "Ready"

\* C6: a mini-batch is attempted at most max_retries + 1 = 4 times; it is
\* Failed only after 4 attempts; and the worker whose call makes it Failed is
\* Ready after that step.
C6_RetriesBounded ==
    [][/\ \A b \in DOMAIN attempts' :
             /\ attempts'[b] <= 4
             /\ bstatus'[b] = "Failed" => attempts'[b] = 4
             /\ bstatus'[b] = "Pending" => attempts'[b] < 4
       /\ \A r \in running :
             bstatus[r[2]] = "Running" /\ bstatus'[r[2]] = "Failed"
                => wstate'[r[1]] = "Ready"]_vars

C6_Witness ==
    \E b, c \in DOMAIN bstatus, w \in DOMAIN wstate :
        /\ bstatus[b] = "Failed"
        /\ bstatus[c] = "Running"
        /\ b < c
        /\ ~cuda
        /\ <<w, c>> \in running

\* C7 (as claimed): nothing of a Failed mini-batch is in the job's output: no
\* output file of one of its items is in the output directory, and none of
\* its rows is in the appended file.
C7_FailedBatchLeavesNothing ==
    \A b \in DOMAIN bstatus :
        bstatus[b] = "Failed"
            => /\ \A i \in 1..Len(Batch(b)) :
                     OutputFilePath(OutputDir, Batch(b)[i]) \notin DOMAIN outdir
               /\ \A row \in DOMAIN outfile :
                     \A i \in 1..Len(Batch(b)) :
                        /\ driver \in {"torch", "keras"}
                              => row.file # basename(Batch(b)[i])
                        /\ driver = "text" => row[2][1] # Batch(b)[i]

\* C8: when scoring some item of the mini-batch raises, run() raises and
\* returns nothing, whatever it had scored before that item.
C8_ItemErrorFailsBatch ==
    (lastRun.called /\ \E k \in 1..Len(lastRun.mini_batch) : FirstError(k))
        => lastRun.out.raised /\ lastRun.out.value = <<>>

C8_Witness ==
    /\ lastRun.called
    /\ lastRun.driver = "keras"
    /\ FirstError(2)
    /\ lastRun.out.raised
    /\ lastRun.out.value = <<>>

InProgressOn(w) == {r \in running : r[1] = w}

InProgressAt(instance) == {r \in running : r[1][1] = instance}

\* C9: at most one run() call is in progress on a worker, at most
\* max_concurrency_per_instance on an instance and at most instance_count
\* times that in the job; for the MNIST deployments that is 2 and 4.
C9_ConcurrencyBounded ==
    /\ \A w \in DOMAIN wstate : Cardinality(InProgressOn(w)) <= 1
    /\ \A i \in 1..instance_count :
          /\ Cardinality(InProgressAt(i)) <= max_concurrency_per_instance(driver)
          /\ driver \in {"torch", "keras"} => Cardinality(InProgressAt(i)) <= 2
    /\ Cardinality(running) <= instance_count * max_concurrency_per_instance(driver)
    /\ driver \in {"torch", "keras"} => Cardinality(running) <= 4

C9_Witness ==
    /\ driver \in {"torch", "keras"}
    /\ Cardinality(InProgressAt(1)) = 2
    /\ Cardinality(running) = 3

\* C10 (as claimed): a run() call of the custom-output driver on N different
\* files that can all be loaded writes N different files, <stem>.parquet of
\* each item in the output directory, and returns N acknowledgments.
C10_OneFilePerItem ==
    (/\ lastRun.called
     /\ lastRun.driver = "custom"
     /\ Distinct(lastRun.mini_batch)
     /\ lastRun.unreadable = {})
        => /\ ~lastRun.out.raised
           /\ Len(lastRun.out.value) = Len(lastRun.mini_batch)
           /\ Len(lastRun.out.writes) = Len(lastRun.mini_batch)
           /\ \A i \in 1..Len(lastRun.mini_batch) :
                 lastRun.out.writes[i][1]
                    = OutputFilePath(OutputDir, lastRun.mini_batch[i])
           /\ Cardinality({lastRun.out.writes[i][1] :
                              i \in 1..Len(lastRun.out.writes)})
                 = Len(lastRun.mini_batch)

\* the columns of `file` followed by the one column "prediction"
WithPrediction(columns, file) ==
    LET cols == CsvColumns("custom", file)
    IN  /\ Len(columns) = Len(cols) + 1
        /\ SubSeq(columns, 1, Len(cols)) = cols
        /\ columns[Len(columns)] = "prediction"
        /\ \A c \in 1..Len(cols) : cols[c] # "prediction"

\* C11: the i-th file a run() call of the custom-output driver writes holds
\* the rows of the i-th input file, its columns unchanged and one more column,
\* `prediction`, after them; every file of the output directory is such a
\* file of some input file with its stem; and a call that returns returns the
\* mini-batch itself, the paths in the order received.
C11_OutputIsInputPlusPrediction ==
    /\ (lastRun.called /\ lastRun.driver = "custom")
          => /\ \A i \in 1..Len(lastRun.out.writes) :
                   /\ lastRun.out.writes[i][2].rows
                         = CsvRows("custom", lastRun.mini_batch[i])
                   /\ WithPrediction(lastRun.out.writes[i][2].columns,
                                     lastRun.mini_batch[i])
             /\ ~lastRun.out.raised => lastRun.out.value = lastRun.mini_batch
    /\ driver = "custom"
          => \A p \in DOMAIN outdir :
                \E file \in Files("custom") :
                    /\ p = OutputFilePath(OutputDir, file)
                    /\ outdir[p].rows = CsvRows("custom", file)
                    /\ WithPrediction(outdir[p].columns, file)

C11_Witness ==
    /\ lastRun.called
    /\ lastRun.driver = "custom"
    /\ ~lastRun.out.raised
    /\ Len(lastRun.out.writes) = 2
    /\ Len(lastRun.out.writes[1][2].rows) # Len(lastRun.out.writes[2][2].rows)
    /\ lastRun.out.value = lastRun.mini_batch
    /\ Cardinality(DOMAIN outdir) = 2

\* C12: a run() call of the Torch, Keras or custom-output driver on the empty
\* mini-batch returns the empty result, writes no file and does not raise.
C12_EmptyBatchReturnsEmpty ==
    (/\ lastRun.called
     /\ lastRun.driver \in {"torch", "keras", "custom"}
     /\ lastRun.mini_batch = <<>>)
        => /\ ~lastRun.out.raised
           /\ lastRun.out.value = <<>>
           /\ lastRun.out.writes = <<>>

C12_Witness ==
    /\ lastRun.called
    /\ lastRun.driver = "torch"
    /\ cuda
    /\ lastRun.mini_batch = <<>>
    /\ ~lastRun.out.raised
    /\ lastRun.out.value = <<>>

\* C13 (as claimed): a run() call of the text driver on a mini-batch that
\* holds no text row to score (no file, or files of a header only) returns
\* the empty result and does not raise.
C13_TextEmptyBatchReturnsEmpty ==
    (/\ lastRun.called
     /\ lastRun.driver = "text"
     /\ lastRun.unreadable = {}
     /\ ScoreRows(lastRun.mini_batch, 1) = <<>>)
        => /\ ~lastRun.out.raised
           /\ lastRun.out.value = <<>>

\* rows held by the files of a mini-batch, all together
RECURSIVE TotalRows(_, _)
TotalRows(d, mini_batch) ==
    IF mini_batch = <<>> THEN 0
    ELSE NumRows(d, Head(mini_batch)) + TotalRows(d, Tail(mini_batch))

JobDone == AllScored /\ jstatus \in {"Completed", "Failed"}

C16_PartialSuccessCompletes ==
    (/\ jstatus # "Running"
     /\ AllScored
     /\ \E b \in DOMAIN bstatus : bstatus[b] = "Failed"
     /\ \E b \in DOMAIN bstatus : bstatus[b] = "Succeeded")
        => /\ jstatus = "Completed"
           /\ check_job_status(jstatus).echo = <<"Completed", "Job completed">>
           /\ ~check_job_status(jstatus).exited

C16_Witness ==
    /\ jstatus = "Completed"
    /\ Cardinality({b \in DOMAIN bstatus : bstatus[b] = "Failed"}) = 2
    /\ Cardinality({b \in DOMAIN bstatus : bstatus[b] = "Succeeded"}) = 1
    /\ check_job_status(jstatus).echo[2] = "Job completed"

\* places <<b, i>> of the job's mini-batches that hold the file `path`
PlacesOf(path) ==
    {p \in (DOMAIN bstatus) \X (1..Len(input)) :
        /\ p[2] <= Len(Batch(p[1]))
        /\ Batch(p[1])[p[2]] = path}

\* C18: every mini-batch of a job holds at least one and at most
\* mini_batch_size files (10 in the MNIST deployments, 1 in the text and 2 in
\* the custom-output deployment), every file of the input is in exactly one
\* mini-batch at exactly one place, a mini-batch holds files of the input
\* only, and every call in progress is on one of these mini-batches.
C18_BatchesPartitionInput ==
    /\ \A b \in DOMAIN bstatus :
          /\ Len(Batch(b)) >= 1
          /\ Len(Batch(b)) <= mini_batch_size(driver)
          /\ Len(Batch(b)) <= (CASE driver = "text" -> 1
                                  [] driver = "custom" -> 2
                                  [] OTHER -> 10)
          /\ \A i \in 1..Len(Batch(b)) :
                \E k \in 1..Len(input) : Batch(b)[i] = input[k]
    /\ \A k \in 1..Len(input) : Cardinality(PlacesOf(input[k])) = 1
    /\ \A r \in running : r[2] \in DOMAIN bstatus

C18_Witness ==
    /\ driver = "keras"
    /\ Len(input) = 21
    /\ Len(bstatus) = 3
    /\ <<<<2, 1>>, 3>> \in running
    /\ attempts[1] = 2
    /\ Len(Batch(3)) = 1
    /\ Len(Batch(2)) = 10

\* C19: in every record the Torch and the Keras driver return, the
\* probability p = num/den has 0 <= p <= 1, the class c is an index of the
\* model's output vector, counted from 0, and the softmax of that output is p
\* at c and nowhere larger.
C19_ProbabilityAndClassValid ==
    (lastRun.called /\ lastRun.driver \in {"torch", "keras"})
        => \A i \in 1..Len(lastRun.out.value) :
              LET rec == lastRun.out.value[i]
                  output == Logits(lastRun.driver, lastRun.mini_batch[i])
                  p == rec.probability
              IN  /\ p[2] > 0
                  /\ 0 <= p[1]
                  /\ p[1] <= p[2]
                  /\ rec.class \in 0..(Len(output) - 1)
                  /\ Softmax(output)[rec.class + 1] = p
                  /\ \A c \in 1..Len(output) :
                        Softmax(output)[c][1] * p[2] <= p[1] * Softmax(output)[c][2]

C19_Witness ==
    /\ lastRun.called
    /\ lastRun.driver = "keras"
    /\ Len(lastRun.out.value) = 2
    /\ lastRun.out.value[1].class = 2
    /\ lastRun.out.value[2].class = 0
    /\ lastRun.out.value[1].probability # lastRun.out.value[2].probability

AtWait == nb.cell <= Len(Cells(nb.book)) /\ NextCell.op = "wait"

\* C20 (as claimed): a round of the wait loop that reads a status the job
\* ends in leaves the loop, and the loop is left only when the job is no
\* longer running.
C20_WaitLoopExitsWhenJobEnds ==
    /\ nb.seen \in TerminalStatuses => ~AtWait
    /\ (nb.seen # "" /\ ~AtWait) => jobs[nb.job].status \in TerminalStatuses

\* C21 (as claimed): the deployment mnist-keras-dpl is given a model that
\* is not the model mnist-classification-torch, differs from the model given
\* to mnist-torch-dpl, and is loaded by init() of the Keras driver without
\* an exception.
C21_KerasDeploymentGivenKerasModel ==
    "mnist-keras-dpl" \in endpoint.deployments =>
        LET given == endpoint.model["mnist-keras-dpl"]
        IN  /\ given.name # "mnist-classification-torch"
            /\ "mnist-torch-dpl" \in endpoint.deployments
                  => given # endpoint.model["mnist-torch-dpl"]
            /\ \A e \in InitEnvs :
                  init(DriverOf("mnist-keras-dpl"), FALSE,
                       EnvOf(ArtefactFor(DriverOf("mnist-keras-dpl"), given), e)).raised = {}

\* the position of the verify-or-create compute cell in a notebook
ComputeCell(book) ==
    CHOOSE k \in 1..Len(Cells(book)) : Cells(book)[k].op = "create_compute"

\* C22 (as claimed): in every notebook the verify-or-create compute cell
\* ends without an exception, whether the compute target existed or not,
\* and once it has ended the compute target compute_name exists.
C22_ComputeCellCreatesOrFinds ==
    nb.book \in Notebooks =>
        /\ nb.cell = ComputeCell(nb.book) => nb.error = ""
        /\ nb.cell > ComputeCell(nb.book)
              => Cells(nb.book)[ComputeCell(nb.book)].arg \in workspace.computes

\* the notebooks with a verify-or-register model cell
Registering ==
    {book \in Notebooks :
        \E k \in 1..Len(Cells(book)) : Cells(book)[k].op = "register_model"}

\* the position of the models.get cell in a notebook
GetModelCell(book) ==
    CHOOSE k \in 1..Len(Cells(book)) : Cells(book)[k].op = "get_model"

\* C23: however often the verify-or-register cell is run, it registers at
\* most one version of model_name, and only when none was registered; the
\* models.get cell after it does not raise and binds `model` to the latest
\* registered version of model_name.
C23_RegisterCellIdempotent ==
    nb.book \in Registering =>
        /\ nb.registered <= 1
        /\ nb.registered = 1
              => Cardinality(Registered(workspace, model_name(nb.book))) = 1
        /\ nb.error # "ResourceNotFoundError"
        /\ nb.cell > GetModelCell(nb.book)
              => /\ nb.model.name = model_name(nb.book)
                 /\ nb.model \in workspace.models
                 /\ nb.model.version = LatestVersion(workspace, model_name(nb.book))

C23_Witness ==
    /\ nb.book = "custom"
    /\ nb.cell = GetModelCell("custom") + 1
    /\ nb.reruns = MaxReruns
    /\ nb.registered = 1
    /\ nb.model = [name |-> "heart-classifier", version |-> 1, path |-> "model"]

\* C24: at every step of the notebooks and of the CLI script the endpoint's
\* default deployment is unset or is a deployment of the endpoint, and every
\* invoke without deployment_name is issued while a default is set.
C24_DefaultDeploymentExists ==
    /\ endpoint.default = NoName \/ endpoint.default \in endpoint.deployments
    /\ \A j \in DOMAIN jobs : jobs[j].named = NoName => jobs[j].default # NoName
    /\ nb.error # "no deployment to invoke"

\* the MNIST notebook has deleted the deployment that was the default first
C24_Witness ==
    /\ nb.book = "mnist"
    /\ endpoint.exists
    /\ endpoint.deployments = {"mnist-keras-dpl"}
    /\ endpoint.default = "mnist-keras-dpl"
    /\ Len(jobs) = 2
    /\ jobs[1].default = "mnist-torch-dpl"

\* the script has run all its commands
ScriptDone == nb.cell > Len(Cells(nb.book))

\* C28: the script exits with status 0 only after all its commands have
\* succeeded and the job's final status was Completed; read as Failed, the
\* status ends it with 1, any other status with 2; a command that fails
\* ends it with a status other than 0, and once ended it runs nothing more.
C28_ExitStatusOfScript ==
    /\ [](nb.book \in Scripts =>
            /\ nb.STATUS \notin {"", "Completed"} => nb.exited
            /\ nb.exited =>
                  /\ nb.code = 0
                        => nb.STATUS = "Completed" /\ nb.error = "" /\ ScriptDone
                  /\ nb.error = "" /\ nb.STATUS = "Failed" => nb.code = 1
                  /\ nb.error = "" /\ nb.STATUS \notin {"Completed", "Failed"}
                        => nb.code = 2
                  /\ nb.error # "" => nb.code # 0 /\ ~ScriptDone)
    /\ [][nb.book \in Scripts /\ nb.exited
            => nb' = nb /\ endpoint' = endpoint /\ workspace' = workspace]_vars

C28_Witness ==
    /\ nb.book = "cli"
    /\ nb.exited
    /\ nb.error = ""
    /\ nb.STATUS = "Canceled"
    /\ nb.code = 2

\* the script has created the batch endpoint
EndpointCreated ==
    \E k \in 1..Len(Cells(nb.book)) :
        Cells(nb.book)[k].op = "create_endpoint" /\ nb.cell > k

\* C29 (as claimed): whenever the script has ended after creating the batch
\* endpoint, the endpoint has been deleted and the folder ./model removed.
C29_ScriptCleansUp ==
    nb.book \in Scripts /\ nb.exited /\ EndpointCreated
        => ~endpoint.exists /\ ~nb.model_dir

\* C25 (as claimed): after init() of the Torch driver the model is on the
\* device that `device` names, on a GPU node and on a CPU node alike, and a
\* run() call on files that can all be loaded does not raise.
C25_TorchModelOnDevice ==
    /\ \A w \in DOMAIN wstate :
          driver = "torch" /\ wstate[w] = "Ready"
             => g[w]["model"].dev = g[w]["device"]
    /\ (lastRun.called /\ lastRun.driver = "torch" /\ lastRun.unreadable = {})
          => ~lastRun.out.raised

\* the items of the job's input written to output path p
WrittenTo(p) ==
    {i \in 1..Len(input) : OutputFilePath(OutputDir, input[i]) = p}

\* C26 (as claimed): every file that the run() calls of a custom-output job
\* have written in the output directory is the output of one item of the
\* job's input only.
C26_OneItemPerOutputFile ==
    driver = "custom" =>
        \A p \in DOMAIN outdir : Cardinality(WrittenTo(p)) = 1

\* the rows of the Succeeded mini-batches among the first b, each as often
\* as the run() calls that succeeded returned it
RECURSIVE RowsOfSucceeded(_)
RowsOfSucceeded(b) ==
    IF b = 0 THEN [row \in {} |-> 0]
    ELSE IF bstatus[b] = "Succeeded"
         THEN LET w == CHOOSE w \in DOMAIN wstate : wstate[w] \in {"Ready", "Scoring"}
              IN  AppendRows(RowsOfSucceeded(b - 1),
                             run(driver, g[w], Batch(b), {}).value, 1)
         ELSE RowsOfSucceeded(b - 1)

\* C27: under append_row, when the job has ended the output file holds the
\* rows returned for every Succeeded mini-batch once per item, also for a
\* mini-batch handed out again after failed attempts, and no other row.
C27_AppendedExactlyOnce ==
    (output_action(driver) = "append_row" /\ jstatus # "Running")
        => outfile = RowsOfSucceeded(NumBatches)

\* a job has ended in which a mini-batch succeeded at its third attempt and
\* another one failed
C27_Witness ==
    /\ output_action(driver) = "append_row"
    /\ jstatus = "Completed"
    /\ \E b \in DOMAIN bstatus : bstatus[b] = "Succeeded" /\ attempts[b] = 3
    /\ \E b \in DOMAIN bstatus : bstatus[b] = "Failed"
    /\ DOMAIN outfile # {}

====
